---------------------------- MODULE Spec2Model ----------------------------
(***************************************************************************)
(* Model of bot/cogs/doc/parsing.py: extraction of one documentation       *)
(* symbol from a parsed HTML page into a bounded markdown summary.         *)
(*                                                                         *)
(* A string is a sequence of one-character strings, so that len(), rstrip, *)
(* the regular-expression substitutions and textwrap.shorten are computed  *)
(* on the characters.  An HTML node is a record; a node is identified, as  *)
(* a Python object is, by its place in the tree: a path <<i>> (the i-th    *)
(* top-level node) or <<i, j>> (the j-th child of the i-th top-level       *)
(* node).  The path <<>> is the BeautifulSoup object itself.               *)
(***************************************************************************)
EXTENDS Integers, Sequences, FiniteSets, TLC

VARIABLES
    soup,            \* the parsed document: a sequence of top-level nodes
    symbol_data,     \* the DocItem: [symbol_id, group, url]
    pc,              \* position in get_symbol_markdown / _parse_into_markdown
    symbol_heading,  \* path of the element found by id, or NoElement
    signature,       \* None, or the list of signature strings
    description,     \* the node sequence selected for the description (paths)
    region,          \* which selector produced `description`
    max_length,      \* the visual budget handed to _get_truncated_description
    idx,             \* position of the for loop over `description`
    visual_length,   \* _get_truncated_description local
    real_length,     \* _get_truncated_description local
    result,          \* _get_truncated_description local: list of markdown strings
    shortened,       \* _get_truncated_description local
    markdown_string, \* value returned by _get_truncated_description
    converted,       \* paths handed to process_tag / process_text, in call order
    scans,           \* the calls of _find_elements_until_tag made so far
    log,             \* records emitted through the module logger
    ret              \* value returned by get_symbol_markdown

vars == <<soup, symbol_data, pc, symbol_heading, signature, description, region,
          max_length, idx, visual_length, real_length, result, shortened,
          markdown_string, converted, scans, log, ret>>

-----------------------------------------------------------------------------
(* Strings                                                                 *)

Rep(c, n) == [k \in 1..n |-> c]

Min(a, b) == IF a < b THEN a ELSE b

\* The vertical tab, which a TLA+ string literal cannot spell
VT == "VT"

\* string.whitespace
Whitespace == {" ", "\t", "\n", "\r", "\f", VT}

RECURSIVE Join(_)
\* "".join(strs)
Join(strs) == IF strs = <<>> THEN <<>> ELSE Head(strs) \o Join(Tail(strs))

\* s without the characters at the positions k with drop[k]
DeleteAt(s, drop) ==
    LET marked == [k \in 1..Len(s) |-> <<s[k], drop[k]>>]
        kept   == SelectSeq(marked, LAMBDA m : ~m[2])
    IN  [k \in 1..Len(kept) |-> kept[k][1]]

\* s[k : k + len(w)] == w
OccursAt(s, w, k) ==
    /\ k >= 1
    /\ k + Len(w) - 1 <= Len(s)
    /\ \A d \in 1..Len(w) : s[k + d - 1] = w[d]


-----------------------------------------------------------------------------
(* Program constants                                                       *)

\* re.compile(r"\[source]|\\\\|¶"): the three alternatives, in order
SourceLabel == <<"[", "s", "o", "u", "r", "c", "e", "]">>
Backslashes == <<"\\", "\\">>
Pilcrow == "¶"

_SEARCH_END_TAG_ATTRS ==
    {"data", "function", "class", "exception", "seealso", "section", "rubric",
     "sphinxsidebar"}

_NO_SIGNATURE_GROUPS ==
    {"attribute", "envvar", "setting", "tempaltefilter", "templatetag", "term"}

_MAX_DESCRIPTION_LENGTH == 1800

_TRUNCATE_STRIP_CHARACTERS == {"!", "?", ":", ";", "."} \cup Whitespace

\* the visual budget _parse_into_markdown passes to the truncation
VisualBudget == 750

\* the width _parse_into_markdown passes to textwrap.shorten
SignatureWidth == 500

\* textwrap.shorten's default placeholder, " [...]"
Placeholder == <<" ", "[", ".", ".", ".", "]">>

Ellipsis == <<".", ".", ".">>

NotFoundMessage ==
    <<"U","n","a","b","l","e"," ","t","o"," ","p","a","r","s","e"," ","t","h","e"," ",
      "r","e","q","u","e","s","t","e","d"," ","s","y","m","b","o","l",".">>

\* limit=None; BeautifulSoup treats every false limit as no limit
NoLimit == 0

\* the limit _get_signatures passes to both sibling scans
SignatureLimit == 2

\* [-3:] in _get_signatures
SignatureKeep == 3

\* symbol_heading is None
NoElement == <<0>>

\* signature = None (no list of strings holds this entry: characters are
\* single characters)
None == << <<"None">> >>

-----------------------------------------------------------------------------
(* The document tree, as BeautifulSoup exposes it                          *)

IsTag(n) == n.kind = "Tag"

\* the node at path p
NodeAt(tree, p) == IF Len(p) = 1 THEN tree[p[1]] ELSE tree[p[1]].children[p[2]]

RECURSIVE TextOfAll(_)
\* PageElement.text: the concatenation of the strings below the node.  A tag
\* without modelled children carries the text of its strings in `text`.
TextOf(n) == IF n.children = <<>> THEN n.text ELSE TextOfAll(n.children)
TextOfAll(ns) == IF ns = <<>> THEN <<>> ELSE Head(ns).text \o TextOfAll(Tail(ns))

\* the paths of the children of the node at p, in document order
ChildPaths(tree, p) ==
    IF Len(p) = 0 THEN [k \in 1..Len(tree) |-> <<k>>]
    ELSE IF Len(p) = 1 THEN [k \in 1..Len(tree[p[1]].children) |-> <<p[1], k>>]
    ELSE <<>>

\* element.parent
Parent(p) == SubSeq(p, 1, Len(p) - 1)

\* element.next_siblings
NextSiblings(tree, p) ==
    IF Len(p) = 0 THEN <<>>
    ELSE LET all == ChildPaths(tree, Parent(p))
         IN  SubSeq(all, p[Len(p)] + 1, Len(all))

\* element.previous_siblings: nearest first
PreviousSiblings(tree, p) ==
    IF Len(p) = 0 THEN <<>>
    ELSE LET all == ChildPaths(tree, Parent(p))
             n   == p[Len(p)] - 1
         IN  [k \in 1..n |-> all[n + 1 - k]]

RECURSIVE DocOrderFrom(_, _)
\* every node of the tree in document order (a node, then its children)
DocOrderFrom(tree, k) ==
    IF k > Len(tree) THEN <<>>
    ELSE <<<<k>>>> \o ChildPaths(tree, <<k>>) \o DocOrderFrom(tree, k + 1)

DocOrder(tree) == DocOrderFrom(tree, 1)

\* element.next_elements: what follows the node at p in document order
NextElements(tree, p) ==
    LET all == DocOrder(tree)
        at  == CHOOSE k \in 1..Len(all) : all[k] = p
    IN  SubSeq(all, at + 1, Len(all))

\* the tags among the nodes at paths
TagsAmong(tree, paths) == SelectSeq(paths, LAMBDA p : IsTag(NodeAt(tree, p)))

\* find and find_next return the first match, or None
FirstOrNone(hits) == IF hits = <<>> THEN NoElement ELSE Head(hits)

\* soup.find(id=symbol_id)
FindById(tree, symbol_id) ==
    FirstOrNone(SelectSeq(TagsAmong(tree, DocOrder(tree)),
                          LAMBDA p : NodeAt(tree, p).id = symbol_id))

\* element.find_next("a", attrs={"class": "headerlink"})
FindNextHeaderlink(tree, start) ==
    FirstOrNone(SelectSeq(TagsAmong(tree, NextElements(tree, start)),
                          LAMBDA p : /\ NodeAt(tree, p).name = "a"
                                     /\ "headerlink" \in NodeAt(tree, p).class))

\* element.find_next("dd")
FindNextDd(tree, start) ==
    FirstOrNone(SelectSeq(TagsAmong(tree, NextElements(tree, start)),
                          LAMBDA p : NodeAt(tree, p).name = "dd"))

\* Strainer(include_strings=...).search: every tag matches, a string only
\* when strings are included
StrainerMatches(n, include_strings) == IsTag(n) \/ include_strings

\* the limit not handed on to func
FindAllNoLimit(matches, limit) == matches

\* BeautifulSoup's _find_all: the matches of the strainer among the
\* generator's elements, cut at `limit` results when limit is true
FindAllLimit(matches, limit) ==
    IF limit = NoLimit THEN matches ELSE SubSeq(matches, 1, Min(limit, Len(matches)))

\* func(start_element, name=Strainer(include_strings=...), limit=limit) for
\* the three partials: find_all(recursive=False), find_next_siblings,
\* find_previous_siblings
Func(tree, start_element, func, include_strings, limit) ==
    LET generator ==
            CASE func = "find_all" -> ChildPaths(tree, start_element)
              [] func = "find_next_siblings" -> NextSiblings(tree, start_element)
              [] func = "find_previous_siblings" -> PreviousSiblings(tree, start_element)
        matches == SelectSeq(generator,
                             LAMBDA p : StrainerMatches(NodeAt(tree, p), include_strings))
    IN  FindAllLimit(matches, limit)

-----------------------------------------------------------------------------
(* parsing.py                                                              *)

\* tag_filter as a tuple of names
TupleFilter(names) == [tuple |-> TRUE, names |-> names]

\* tag_filter as the callable _match_end_tag
CallableFilter == [tuple |-> FALSE, names |-> {}]

_match_end_tag(tag) ==
    \/ \E attr \in _SEARCH_END_TAG_ATTRS : attr \in tag.class
    \/ tag.name = "table"

\* the test of the loop body of _find_elements_until_tag that breaks
Breaks(element, tag_filter) ==
    /\ IsTag(element)
    /\ IF tag_filter.tuple THEN element.name \in tag_filter.names
       ELSE _match_end_tag(element)

RECURSIVE ScanLoopContinue(_, _, _, _, _)
\* the loop with `continue` in place of `break`
ScanLoopContinue(tree, yielded, k, tag_filter, elements) ==
    IF k > Len(yielded) THEN [elements |-> elements, inspected |-> Len(yielded)]
    ELSE IF Breaks(NodeAt(tree, yielded[k]), tag_filter)
         THEN ScanLoopContinue(tree, yielded, k + 1, tag_filter, elements)
         ELSE ScanLoopContinue(tree, yielded, k + 1, tag_filter,
                               Append(elements, yielded[k]))

RECURSIVE ScanLoop(_, _, _, _, _)
\* the for loop of _find_elements_until_tag over what func yields; `inspected`
\* counts the elements the loop took from func
ScanLoop(tree, yielded, k, tag_filter, elements) ==
    IF k > Len(yielded) THEN [elements |-> elements, inspected |-> Len(yielded)]
    ELSE IF Breaks(NodeAt(tree, yielded[k]), tag_filter)
         THEN [elements |-> elements, inspected |-> k]
         ELSE ScanLoop(tree, yielded, k + 1, tag_filter, Append(elements, yielded[k]))

\* one call of _find_elements_until_tag, with its arguments and its outcome
_find_elements_until_tag(tree, start_element, tag_filter, func, include_strings, limit) ==
    LET yielded == Func(tree, start_element, func, include_strings, limit)
        out     == ScanLoop(tree, yielded, 1, tag_filter, <<>>)
    IN  [start_element |-> start_element, tag_filter |-> tag_filter, func |-> func,
         include_strings |-> include_strings, limit |-> limit,
         elements |-> out.elements, inspected |-> out.inspected]

_find_next_children_until_tag(tree, start_element, tag_filter, include_strings, limit) ==
    _find_elements_until_tag(tree, start_element, tag_filter, "find_all",
                             include_strings, limit)

_find_next_siblings_until_tag(tree, start_element, tag_filter, include_strings, limit) ==
    _find_elements_until_tag(tree, start_element, tag_filter, "find_next_siblings",
                             include_strings, limit)

_find_previous_siblings_until_tag(tree, start_element, tag_filter, include_strings, limit) ==
    _find_elements_until_tag(tree, start_element, tag_filter, "find_previous_siblings",
                             include_strings, limit)

\* the scan _get_general_description makes
_get_general_description(tree, start_element) ==
    LET header    == FindNextHeaderlink(tree, start_element)
        start_tag == IF header # NoElement THEN Parent(header) ELSE start_element
    IN  _find_next_siblings_until_tag(tree, start_tag, CallableFilter, TRUE, NoLimit)

\* the scan _get_dd_description makes; the caller handles description_tag
\* being None
_get_dd_description(tree, description_tag) ==
    _find_next_children_until_tag(tree, description_tag, TupleFilter({"dt", "dl"}),
                                  TRUE, NoLimit)


\* the number of consecutive backslashes of s that end at k (0 when s[k] is
\* none)
BackslashesUpTo(s, k) == Cardinality({j \in 1..k : \A m \in j..k : s[m] = "\\"})

\* the number of consecutive backslashes of s that start at k
BackslashesFrom(s, k) == Cardinality({j \in k..Len(s) : \A m \in k..j : s[m] = "\\"})

\* _UNWANTED_SIGNATURE_SYMBOLS_RE.sub("", text): the leftmost non-overlapping
\* matches of "[source]", of a pair of backslashes and of the pilcrow are
\* deleted.  No two alternatives share a character, so every "[source]" and
\* every pilcrow is a match, and a run of backslashes is matched pairwise from
\* its start.
CleanSignature(text) ==
    DeleteAt(text,
             [k \in 1..Len(text) |->
                 \/ text[k] = Pilcrow
                 \/ \E d \in 0..(Len(SourceLabel) - 1) : OccursAt(text, SourceLabel, k - d)
                 \/ /\ text[k] = "\\"
                    /\ LET before == BackslashesUpTo(text, k)
                           run    == before + BackslashesFrom(text, k) - 1
                       IN  before <= 2 * (run \div 2)])

Reverse(seq) == [k \in 1..Len(seq) |-> seq[Len(seq) + 1 - k]]

\* seq[:n] in place of seq[-n:]
FirstN(seq, n) == SubSeq(seq, 1, Min(n, Len(seq)))

\* seq[-n:]
LastN(seq, n) == SubSeq(seq, Len(seq) - Min(n, Len(seq)) + 1, Len(seq))

\* _get_signatures: the two scans it makes and the list it returns
_get_signatures(tree, start_signature) ==
    LET previous == _find_previous_siblings_until_tag(
                        tree, start_signature, TupleFilter({"dd"}), FALSE, SignatureLimit)
        next     == _find_next_siblings_until_tag(
                        tree, start_signature, TupleFilter({"dd"}), FALSE, SignatureLimit)
        around   == Reverse(previous.elements) \o <<start_signature>> \o next.elements
        kept     == LastN(around, SignatureKeep)
        cleaned  == [k \in 1..Len(kept) |-> CleanSignature(TextOf(NodeAt(tree, kept[k])))]
    IN  [signatures |-> SelectSeq(cleaned, LAMBDA sig : sig # <<>>),
         scans |-> <<previous, next>>]

\* DocMarkdownConverter.process_tag: the markdown of a tag, which the
\* document supplies in the node's md field
process_tag(element) == element.md

\* DocMarkdownConverter.process_text: the markdown of a string
process_text(element) == element.md

\* len(element.text) if is_tag else len(element)
ElementLength(element) == IF IsTag(element) THEN Len(TextOf(element)) ELSE Len(element.text)

\* s.rstrip(chars)
RStrip(s, chars) ==
    LET keep == CHOOSE k \in 0..Len(s) :
                    /\ k = 0 \/ s[k] \notin chars
                    /\ \A j \in (k + 1)..Len(s) : s[j] \in chars
    IN  SubSeq(s, 1, keep)

\* _WHITESPACE_AFTER_NEWLINES_RE.sub('', s): a character is deleted when it
\* belongs to a run of whitespace that starts right after two newlines
CollapseAfterNewlines(s) ==
    DeleteAt(s,
             [k \in 1..Len(s) |->
                 /\ s[k] \in Whitespace
                 /\ \E j \in 3..k :
                        /\ s[j - 1] = "\n"
                        /\ s[j - 2] = "\n"
                        /\ \A m \in j..k : s[m] \in Whitespace])

\* ' '.join(text.strip().split())
CollapseWhitespace(text) ==
    LET spaced == [k \in 1..Len(text) |-> IF text[k] \in Whitespace THEN " " ELSE text[k]]
    IN  DeleteAt(spaced,
                 [k \in 1..Len(spaced) |->
                     /\ spaced[k] = " "
                     /\ \/ k = 1
                        \/ spaced[k - 1] = " "
                        \/ \A j \in (k + 1)..Len(spaced) : spaced[j] = " "])

\* textwrap.shorten(text, width) for text without hyphens: the collapsed text
\* when it fits, otherwise its longest prefix of whole words that fits together
\* with the placeholder, followed by the placeholder; the stripped placeholder
\* when not even the first word fits
Shorten(text, width) ==
    LET collapsed == CollapseWhitespace(text)
        ends == {k \in 1..Min(Len(collapsed) - 1, width - Len(Placeholder)) :
                     collapsed[k] # " " /\ collapsed[k + 1] = " "}
    IN  IF Len(collapsed) <= width THEN collapsed
        ELSE IF ends = {} THEN Tail(Placeholder)
        ELSE SubSeq(collapsed, 1, CHOOSE k \in ends : \A j \in ends : j <= k) \o Placeholder

\* The backquote, which a TLA+ string literal cannot spell
Backquote == "BQ"

\* the three backquotes that open and close a fenced code block
Fence == <<Backquote, Backquote, Backquote>>

\* the f-string of _parse_into_markdown: a fence, "py", a newline, the
\* shortened signature, a fence
CodeBlock(sig) == Fence \o <<"p", "y", "\n">> \o Shorten(sig, SignatureWidth) \o Fence

\* str.replace('¶', '')
StripPilcrow(s) == SelectSeq(s, LAMBDA c : c # Pilcrow)

\* _parse_into_markdown from line 175 on, given the truncated description
FormatMarkdown(signatures, truncated) ==
    LET desc == CollapseAfterNewlines(truncated)
        formatted_markdown ==
            IF signatures # None
            THEN Join([k \in 1..Len(signatures) |-> CodeBlock(signatures[k])])
            ELSE <<>>
    IN  formatted_markdown \o <<"\n">> \o desc


-----------------------------------------------------------------------------
(* get_symbol_markdown, one action per step                                *)

Node(p) == NodeAt(soup, p)

\* lines 200-203 without the return: the warning is logged and the lookups
\* on None that follow raise AttributeError
LookupNotFoundNoReturn ==
    /\ pc = "start"
    /\ FindById(soup, symbol_data.symbol_id) = NoElement
    /\ log' = Append(log, "warning")
    /\ pc' = "raised"
    /\ UNCHANGED <<soup, symbol_data, symbol_heading, signature, description, region,
                   max_length, idx, visual_length, real_length, result, shortened,
                   markdown_string, converted, scans, ret>>

\* lines 200-203: the id matches no element
LookupNotFound ==
    /\ pc = "start"
    /\ FindById(soup, symbol_data.symbol_id) = NoElement
    /\ log' = Append(log, "warning")
    /\ ret' = NotFoundMessage
    /\ pc' = "done"
    /\ UNCHANGED <<soup, symbol_data, symbol_heading, signature, description, region,
                   max_length, idx, visual_length, real_length, result, shortened,
                   markdown_string, converted, scans>>

\* lines 200-204: the element is found
LookupFound ==
    /\ pc = "start"
    /\ FindById(soup, symbol_data.symbol_id) # NoElement
    /\ symbol_heading' = FindById(soup, symbol_data.symbol_id)
    /\ signature' = None
    /\ pc' = "select"
    /\ UNCHANGED <<soup, symbol_data, description, region, max_length, idx,
                   visual_length, real_length, result, shortened, markdown_string,
                   converted, scans, log, ret>>

\* what the two general branches share: line 208 / line 213, then the call
\* of _parse_into_markdown down to its call of _get_truncated_description
GeneralDescription ==
    LET scan == _get_general_description(soup, symbol_heading)
    IN  /\ description' = scan.elements
        /\ scans' = Append(scans, scan)
        /\ region' = "general"
        /\ max_length' = VisualBudget
        /\ pc' = "truncate"
        /\ UNCHANGED <<soup, symbol_data, symbol_heading, signature, idx, visual_length,
                       real_length, result, shortened, markdown_string, converted,
                       log, ret>>

\* lines 207-208
SelectGeneralByGroup ==
    /\ pc = "select"
    /\ symbol_data.group \in {"module", "doc", "label"}
    /\ GeneralDescription

\* lines 210-213: the branch holds a comment and the call, and logs nothing
SelectGeneralByTag ==
    /\ pc = "select"
    /\ symbol_data.group \notin {"module", "doc", "label"}
    /\ Node(symbol_heading).name # "dt"
    /\ GeneralDescription

\* line 215
SelectNoSignature ==
    /\ pc = "select"
    /\ symbol_data.group \notin {"module", "doc", "label"}
    /\ Node(symbol_heading).name = "dt"
    /\ symbol_data.group \in _NO_SIGNATURE_GROUPS
    /\ pc' = "dd"
    /\ UNCHANGED <<soup, symbol_data, symbol_heading, signature, description, region,
                   max_length, idx, visual_length, real_length, result, shortened,
                   markdown_string, converted, scans, log, ret>>

\* lines 218-219
SelectSignature ==
    /\ pc = "select"
    /\ symbol_data.group \notin {"module", "doc", "label"}
    /\ Node(symbol_heading).name = "dt"
    /\ symbol_data.group \notin _NO_SIGNATURE_GROUPS
    /\ LET got == _get_signatures(soup, symbol_heading)
       IN  /\ signature' = got.signatures
           /\ scans' = scans \o got.scans
    /\ pc' = "dd"
    /\ UNCHANGED <<soup, symbol_data, symbol_heading, description, region, max_length,
                   idx, visual_length, real_length, result, shortened, markdown_string,
                   converted, log, ret>>

\* line 216 / line 220: _get_dd_description, then the call of
\* _parse_into_markdown down to its call of _get_truncated_description
DdDescription ==
    /\ pc = "dd"
    /\ FindNextDd(soup, symbol_heading) # NoElement
    /\ LET scan == _get_dd_description(soup, FindNextDd(soup, symbol_heading))
       IN  /\ description' = scan.elements
           /\ scans' = Append(scans, scan)
    /\ region' = "dd"
    /\ max_length' = VisualBudget
    /\ pc' = "truncate"
    /\ UNCHANGED <<soup, symbol_data, symbol_heading, signature, idx, visual_length,
                   real_length, result, shortened, markdown_string, converted, log, ret>>

\* line 99 finds no dd: line 100 hands None to find_all, which raises
\* AttributeError out of get_symbol_markdown
DdDescriptionRaises ==
    /\ pc = "dd"
    /\ FindNextDd(soup, symbol_heading) = NoElement
    /\ pc' = "raised"
    /\ UNCHANGED <<soup, symbol_data, symbol_heading, signature, description, region,
                   max_length, idx, visual_length, real_length, result, shortened,
                   markdown_string, converted, scans, log, ret>>

-----------------------------------------------------------------------------
(* _get_truncated_description, one action per way through the loop body    *)

\* the element the for loop is at
Element == Node(description[idx])

\* lines 145-147
Markdown(element) == IF IsTag(element) THEN process_tag(element) ELSE process_text(element)

\* lines 143-151, 155-156: the element fits both budgets
TruncAppend ==
    /\ pc = "truncate"
    /\ idx <= Len(description)
    /\ visual_length + ElementLength(Element) < max_length
    /\ real_length + Len(Markdown(Element)) < _MAX_DESCRIPTION_LENGTH
    /\ converted' = Append(converted, description[idx])
    /\ result' = Append(result, Markdown(Element))
    /\ real_length' = real_length + Len(Markdown(Element))
    /\ visual_length' = visual_length + ElementLength(Element)
    /\ idx' = idx + 1
    /\ UNCHANGED <<soup, symbol_data, pc, symbol_heading, signature, description, region,
                   max_length, shortened, markdown_string, scans, log, ret>>

\* lines 143-150, 152-154: converted, and over the raw limit
TruncStopRaw ==
    /\ pc = "truncate"
    /\ idx <= Len(description)
    /\ visual_length + ElementLength(Element) < max_length
    /\ ~(real_length + Len(Markdown(Element)) < _MAX_DESCRIPTION_LENGTH)
    /\ converted' = Append(converted, description[idx])
    /\ shortened' = TRUE
    /\ pc' = "join"
    /\ UNCHANGED <<soup, symbol_data, symbol_heading, signature, description, region,
                   max_length, idx, visual_length, real_length, result, markdown_string,
                   scans, log, ret>>

\* the visual test made after the conversion instead of before it
TruncStopVisualEager ==
    /\ pc = "truncate"
    /\ idx <= Len(description)
    /\ ~(visual_length + ElementLength(Element) < max_length)
    /\ converted' = Append(converted, description[idx])
    /\ shortened' = TRUE
    /\ pc' = "join"
    /\ UNCHANGED <<soup, symbol_data, symbol_heading, signature, description, region,
                   max_length, idx, visual_length, real_length, result, markdown_string,
                   scans, log, ret>>

\* lines 143, 157-159: over the visual limit
TruncStopVisual ==
    /\ pc = "truncate"
    /\ idx <= Len(description)
    /\ ~(visual_length + ElementLength(Element) < max_length)
    /\ shortened' = TRUE
    /\ pc' = "join"
    /\ UNCHANGED <<soup, symbol_data, symbol_heading, signature, description, region,
                   max_length, idx, visual_length, real_length, result, markdown_string,
                   converted, scans, log, ret>>

\* line 140: the elements are exhausted
TruncExhausted ==
    /\ pc = "truncate"
    /\ idx > Len(description)
    /\ pc' = "join"
    /\ UNCHANGED <<soup, symbol_data, symbol_heading, signature, description, region,
                   max_length, idx, visual_length, real_length, result, shortened,
                   markdown_string, converted, scans, log, ret>>

\* lines 161-164 without the test of `shortened`
TruncReturnAlways ==
    /\ pc = "join"
    /\ markdown_string' = RStrip(Join(result), _TRUNCATE_STRIP_CHARACTERS) \o Ellipsis
    /\ pc' = "format"
    /\ UNCHANGED <<soup, symbol_data, symbol_heading, signature, description, region,
                   max_length, idx, visual_length, real_length, result, shortened,
                   converted, scans, log, ret>>

\* lines 161-164
TruncReturn ==
    /\ pc = "join"
    /\ markdown_string' =
           IF shortened
           THEN RStrip(Join(result), _TRUNCATE_STRIP_CHARACTERS) \o Ellipsis
           ELSE Join(result)
    /\ pc' = "format"
    /\ UNCHANGED <<soup, symbol_data, symbol_heading, signature, description, region,
                   max_length, idx, visual_length, real_length, result, shortened,
                   converted, scans, log, ret>>

\* lines 175-182 of _parse_into_markdown, and the replace and return of line 221
ParseIntoMarkdown ==
    /\ pc = "format"
    /\ ret' = StripPilcrow(FormatMarkdown(signature, markdown_string))
    /\ pc' = "done"
    /\ UNCHANGED <<soup, symbol_data, symbol_heading, signature, description, region,
                   max_length, idx, visual_length, real_length, result, shortened,
                   markdown_string, converted, scans, log>>


-----------------------------------------------------------------------------
(* The documents and descriptors the checks draw from                      *)

\* most top-level nodes after the anchor (Spec)
MaxTail == 2

\* most nodes of a description (SpecTrunc)
MaxNodes == 3

\* most siblings on either side of the anchor (SpecSig)
MaxSide == 3

SeqsUpTo(S, n) == UNION {[1..m -> S] : m \in 0..n}

Tag(name, class, id, text, md, children) ==
    [kind |-> "Tag", name |-> name, class |-> class, id |-> id, text |-> text,
     md |-> md, children |-> children]

String(text, md) ==
    [kind |-> "NavigableString", name |-> "", class |-> {}, id |-> "", text |-> text,
     md |-> md, children |-> <<>>]

Headerlink == Tag("a", {"headerlink"}, "", <<Pilcrow>>, <<>>, <<>>)

Paragraph(text) == Tag("p", {}, "", text, text \o <<"\n", "\n">>, <<>>)

\* a paragraph of links: n visible characters that convert to m characters
Links(n, m) == Tag("p", {}, "", Rep("a", n), Rep("b", m), <<>>)

SigF == <<"f", "(", "x", ")">>
SigG == <<"g", "(", ")">> \o SourceLabel \o <<Pilcrow>>
\* 100 words of five letters: 599 characters
SigLong == SubSeq(Join(Rep(Rep("h", 5) \o <<" ">>, 100)), 1, 599)

\* the anchors: a dt carrying the id, a span carrying it, a dt without it
DtAnchor ==
    Tag("dt", {"sig"}, "sym", <<>>, SigF, <<String(SigF, SigF), Headerlink>>)
DtLongAnchor == Tag("dt", {"sig"}, "sym", SigLong, SigLong, <<>>)
SpanAnchor == Tag("span", {}, "sym", <<>>, <<>>, <<>>)
DtOther == Tag("dt", {"sig"}, "", SigG, SigG, <<>>)

DdDoc ==
    Tag("dd", {}, "", <<>>, <<>>,
        <<Paragraph(<<"D", "o", "c", ".">>),
          String(<<"\n", " ", "x", Pilcrow>>, <<" ", "x", Pilcrow>>),
          Tag("dl", {}, "", <<"i", "n">>, <<"i", "n">>, <<>>),
          Paragraph(<<"e", "n", "d">>)>>)

\* a description of links whose markdown reaches the raw limit while the
\* text stays far below the visual one
DdLinks ==
    Tag("dd", {}, "", <<>>, <<>>,
        <<Links(10, 900), Links(10, 899), Paragraph(<<"e", "n", "d">>)>>)

Heading ==
    Tag("h1", {}, "", <<>>, <<"T">>, <<String(<<"T">>, <<"T">>), Headerlink>>)

Table == Tag("table", {"docutils"}, "", <<"t">>, <<"t">>, <<>>)

Section == Tag("div", {"section", "body"}, "", <<"s">>, <<"s">>, <<>>)

\* a description that passes the visual limit: 374 + 2 + 375 characters
DdLong ==
    Tag("dd", {}, "", <<>>, <<>>,
        <<Links(374, 374), String(<<".", " ">>, <<".", " ">>), Links(375, 375)>>)

Heads == {<<>>, <<DdDoc, DtOther>>}

Anchors == {DtAnchor, DtLongAnchor, SpanAnchor, DtOther}

Rest ==
    {DtOther, DdDoc, DdLinks, DdLong, Heading, Paragraph(<<"P", ".">>), Table, Section,
     String(<<"\n">>, <<"\n">>)}

Documents ==
    {head \o <<anchor>> \o tail :
        head \in Heads, anchor \in Anchors, tail \in SeqsUpTo(Rest, MaxTail)}

Groups ==
    {"module", "doc", "label", "function", "attribute", "envvar", "setting",
     "templatefilter", "templatetag", "term"}

Url == "https://docs.example/page.html"

\* the locals before any statement of get_symbol_markdown has run
Fresh ==
    /\ symbol_heading = NoElement
    /\ signature = None
    /\ description = <<>>
    /\ region = "none"
    /\ max_length = VisualBudget
    /\ idx = 1
    /\ visual_length = 0
    /\ real_length = 0
    /\ result = <<>>
    /\ shortened = FALSE
    /\ markdown_string = <<>>
    /\ converted = <<>>
    /\ scans = <<>>
    /\ log = <<>>
    /\ ret = <<>>

Init ==
    /\ soup \in Documents
    /\ symbol_data \in {[symbol_id |-> "sym", group |-> g, url |-> Url] : g \in Groups}
    /\ pc = "start"
    /\ Fresh

Next ==
    \/ LookupNotFound
    \/ LookupFound
    \/ SelectGeneralByGroup
    \/ SelectGeneralByTag
    \/ SelectNoSignature
    \/ SelectSignature
    \/ DdDescription
    \/ DdDescriptionRaises
    \/ TruncAppend
    \/ TruncStopRaw
    \/ TruncStopVisual
    \/ TruncExhausted
    \/ TruncReturn
    \/ ParseIntoMarkdown

Spec == Init /\ [][Next]_vars


-----------------------------------------------------------------------------
(* _get_truncated_description alone, over descriptions that reach, miss by *)
(* one and pass each of the two limits                                     *)

DescriptionNodes ==
    {Links(374, 374), Links(375, 375), Links(10, 900), Links(10, 899), Links(740, 3),
     String(<<".", " ">>, <<".", " ">>),
     Paragraph(<<"E", "n", "d", "!">>)}

\* the state in which get_symbol_markdown, for a symbol of a group without
\* signature, enters _get_truncated_description
InitTrunc ==
    /\ soup \in {<<DtAnchor, Tag("dd", {}, "", <<>>, <<>>, children)>> :
                    children \in SeqsUpTo(DescriptionNodes, MaxNodes)}
    /\ symbol_data = [symbol_id |-> "sym", group |-> "attribute", url |-> Url]
    /\ pc = "truncate"
    /\ symbol_heading = <<1>>
    /\ signature = None
    /\ scans = <<_get_dd_description(soup, <<2>>)>>
    /\ description = scans[1].elements
    /\ region = "dd"
    /\ max_length = VisualBudget
    /\ idx = 1
    /\ visual_length = 0
    /\ real_length = 0
    /\ result = <<>>
    /\ shortened = FALSE
    /\ markdown_string = <<>>
    /\ converted = <<>>
    /\ log = <<>>
    /\ ret = <<>>

NextTrunc ==
    \/ TruncAppend
    \/ TruncStopRaw
    \/ TruncStopVisual
    \/ TruncExhausted
    \/ TruncReturn

SpecTrunc == InitTrunc /\ [][NextTrunc]_vars

-----------------------------------------------------------------------------
(* _get_signatures alone, over every row of siblings around the anchor     *)

Digit(k) == <<"0", "1", "2", "3", "4", "5", "6", "7", "8", "9">>[k + 1]

\* the sibling of a kind at place k of the row; a dt's text names its place
Sibling(kind, k) ==
    CASE kind = "dt" ->
             Tag("dt", {"sig"}, "",
                 <<"f", Digit(k), "\\", "\\", "\\">> \o SourceLabel \o <<Pilcrow>>,
                 <<>>, <<>>)
      [] kind = "decoration" ->
             Tag("dt", {"sig"}, "", SourceLabel \o <<"\\", "\\", Pilcrow>>, <<>>, <<>>)
      [] kind = "dd" ->
             Tag("dd", {}, "", <<>>, <<>>,
                 <<String(<<"d", Digit(k)>>, <<"d", Digit(k)>>),
                   Paragraph(<<"P", ".">>),
                   Tag("dl", {}, "", <<"i", "n">>, <<"i", "n">>, <<>>),
                   Paragraph(<<"e", "n", "d">>)>>)
      [] kind = "string" -> String(<<"\n">>, <<"\n">>)

SiblingKinds == {"dt", "decoration", "dd", "string"}

\* the row of the kinds before, the anchor (a dt carrying the id), the kinds after
Row(before, anchor, after) ==
    LET kinds == before \o <<anchor>> \o after
    IN  [k \in 1..Len(kinds) |->
            IF k = Len(before) + 1
            THEN [Sibling(kinds[k], k) EXCEPT !.id = "sym"]
            ELSE Sibling(kinds[k], k)]

\* the state in which get_symbol_markdown, for a function whose anchor is a
\* dt, is about to choose the region; the check follows it through the
\* selection of the signatures and of the description
InitSig ==
    /\ \E before \in SeqsUpTo(SiblingKinds, MaxSide),
          after \in SeqsUpTo(SiblingKinds, MaxSide) :
           /\ soup = Row(before, "dt", after)
           /\ symbol_heading = <<Len(before) + 1>>
    /\ symbol_data = [symbol_id |-> "sym", group |-> "function", url |-> Url]
    /\ pc = "select"
    /\ signature = None
    /\ description = <<>>
    /\ region = "none"
    /\ max_length = VisualBudget
    /\ idx = 1
    /\ visual_length = 0
    /\ real_length = 0
    /\ result = <<>>
    /\ shortened = FALSE
    /\ markdown_string = <<>>
    /\ converted = <<>>
    /\ scans = <<>>
    /\ log = <<>>
    /\ ret = <<>>

NextSig ==
    \/ SelectSignature
    \/ DdDescription
    \/ DdDescriptionRaises

SpecSig == InitSig /\ [][NextSig]_vars


-----------------------------------------------------------------------------
(* Properties                                                              *)

RECURSIVE Ascending(_)
\* the members of a set of numbers, smallest first
Ascending(S) ==
    IF S = {} THEN <<>>
    ELSE LET least == CHOOSE x \in S : \A y \in S : x <= y
         IN  <<least>> \o Ascending(S \ {least})

RECURSIVE Sum(_, _)
\* f[1] + ... + f[k]
Sum(f, k) == IF k = 0 THEN 0 ELSE f[k] + Sum(f, k - 1)

Found == FindById(soup, symbol_data.symbol_id) # NoElement

\* get_symbol_markdown has chosen its branch
Selected == Found /\ pc \notin {"start", "select"}

GeneralGroups == {"module", "doc", "label"}

\* ---- C3 ----

\* the place of the anchor in the row of SpecSig
AnchorPlace == symbol_heading[1]

\* the tags before the anchor with no dd from them to the anchor and fewer than
\* two tags between them and the anchor
PrecedingKept ==
    {j \in 1..(AnchorPlace - 1) :
        /\ IsTag(soup[j])
        /\ \A m \in j..(AnchorPlace - 1) : soup[m].name # "dd"
        /\ Cardinality({m \in (j + 1)..(AnchorPlace - 1) : IsTag(soup[m])}) < 2}

FollowingKept ==
    {j \in (AnchorPlace + 1)..Len(soup) :
        /\ IsTag(soup[j])
        /\ \A m \in (AnchorPlace + 1)..j : soup[m].name # "dd"
        /\ Cardinality({m \in (AnchorPlace + 1)..(j - 1) : IsTag(soup[m])}) < 2}

\* the last three places of the ordering preceding, anchor, following
LastThree ==
    LET around == PrecedingKept \cup {AnchorPlace} \cup FollowingKept
    IN  {j \in around : Cardinality({m \in around : m > j}) < 3}

\* what cleaning leaves of the text of the dt at place j of a row of SpecSig:
\* "f", the digit of the place and the odd backslash; nothing of a decoration
CleanedAt(j) ==
    IF Len(soup[j].text) > 0 /\ soup[j].text[1] = "f" THEN <<"f", Digit(j), "\\">> ELSE <<>>

\* C3: _get_signatures returns the cleaned texts of the last 3 elements of
\* [up to 2 preceding siblings, the anchor, up to 2 following siblings], each
\* side cut at the first dd, in document order, without the entries that
\* cleaning leaves empty: at most 3 entries, none empty.
C3_Signatures ==
    pc # "select" =>
        LET places == Ascending({j \in LastThree : CleanedAt(j) # <<>>})
        IN  /\ signature = [k \in 1..Len(places) |-> CleanedAt(places[k])]
            /\ Len(signature) <= 3
            /\ \A k \in 1..Len(signature) : signature[k] # <<>>

\* one preceding dt, the anchor, two following dt before a dd: the result is
\* the anchor and the two that follow it
C3_Witness ==
    /\ pc = "dd"
    /\ Len(soup) = 5
    /\ AnchorPlace = 2
    /\ \A j \in 1..4 : soup[j].name = "dt" /\ CleanedAt(j) # <<>>
    /\ soup[5].name = "dd"
    /\ signature = <<CleanedAt(2), CleanedAt(3), CleanedAt(4)>>

\* ---- C4 ----

\* C4: when the id matches no element, get_symbol_markdown returns exactly the
\* not-found message, raises nothing, and runs no region selection, signature
\* extraction or conversion.
C4_NotFound ==
    ~Found =>
        /\ pc \in {"start", "done"}
        /\ pc = "done" => ret = NotFoundMessage /\ log = <<"warning">>
        /\ region = "none"
        /\ signature = None
        /\ scans = <<>>
        /\ converted = <<>>

C4_Witness == ~Found /\ pc = "done" /\ ret = NotFoundMessage


\* ---- C6 ----

\* len of the text, and of the markdown, of each node of the description
TextLengths == [k \in 1..Len(description) |-> ElementLength(Node(description[k]))]
MarkdownLengths == [k \in 1..Len(description) |-> Len(Node(description[k]).md)]

\* node k met with the counters of the k - 1 nodes before it: over the
\* visual budget, over the raw limit
OverVisual(k) == Sum(TextLengths, k - 1) + TextLengths[k] >= max_length
OverRaw(k) == Sum(MarkdownLengths, k - 1) + MarkdownLengths[k] >= 1800

\* the first node over one of the limits; one past the last node when none is
StoppingNode ==
    LET over == {k \in 1..Len(description) : OverVisual(k) \/ OverRaw(k)}
    IN  IF over = {} THEN Len(description) + 1
        ELSE CHOOSE k \in over : \A j \in over : k <= j

\* the loop of _get_truncated_description is over
LoopOver == pc \in {"join", "format", "done"}

\* C6: the nodes whose markdown is emitted are a prefix of the description; the
\* loop stops at the first node over the visual budget (neither converted nor
\* included) or over the raw limit of 1800 (converted, not included); no node
\* after the stopping node is converted.
C6_StreamingEarlyExit ==
    pc \in {"truncate", "join", "format", "done"} =>
        /\ result = [k \in 1..Len(result) |-> Node(description[k]).md]
        /\ converted = SubSeq(description, 1, Len(converted))
        /\ Len(result) < StoppingNode
        /\ Len(converted) <= StoppingNode
        /\ Len(converted) <= Len(description)
        /\ Len(converted) = StoppingNode => ~OverVisual(StoppingNode)
        /\ LoopOver =>
               /\ Len(result) = StoppingNode - 1
               /\ Len(converted) >= StoppingNode - 1
               /\ StoppingNode <= Len(description) /\ ~OverVisual(StoppingNode)
                      => Len(converted) = StoppingNode

\* the loop stopped at a node over the visual budget with nodes left after it,
\* after it had emitted one
C6_Witness ==
    /\ pc = "format"
    /\ StoppingNode < Len(description)
    /\ StoppingNode > 1
    /\ OverVisual(StoppingNode)
    /\ Len(converted) = StoppingNode - 1

\* ---- C7 ----

\* C7: the ellipsis is appended if and only if a node was rejected by one of
\* the budgets.  When every node fits, the result is the concatenation of the
\* converted nodes, unstripped.  Otherwise it is the concatenation of the nodes
\* before the rejected one, without its trailing characters from "!?:;." and
\* whitespace, followed by "...".
C7_EllipsisIffTruncated ==
    pc = "format" =>
        LET fits == StoppingNode > Len(description)
            emitted == Join([k \in 1..(StoppingNode - 1) |-> Node(description[k]).md])
            strip == {"!", "?", ":", ";", ".", " ", "\t", "\n", "\r", "\f", VT}
            body == SubSeq(markdown_string, 1, Len(markdown_string) - 3)
        IN  /\ shortened = ~fits
            /\ fits => markdown_string = emitted
            /\ ~fits =>
                   /\ Len(markdown_string) >= 3
                   /\ SubSeq(markdown_string, Len(markdown_string) - 2,
                             Len(markdown_string)) = <<".", ".", ".">>
                   /\ body = SubSeq(emitted, 1, Len(body))
                   /\ Len(body) <= Len(emitted)
                   /\ body = <<>> \/ body[Len(body)] \notin strip
                   /\ \A k \in (Len(body) + 1)..Len(emitted) : emitted[k] \in strip

\* a truncated result whose trailing punctuation was stripped before the
\* ellipsis
C7_Witness ==
    /\ pc = "format"
    /\ shortened
    /\ Len(result) > 0
    /\ Len(markdown_string) < Len(Join(result)) + 3

\* ---- C8 ----

\* the nodes the scan's traversal meets, in traversal order
Traversed(scan) ==
    LET p == scan.start_element
        row == [k \in 1..Len(ChildPaths(soup, Parent(p))) |-> ChildPaths(soup, Parent(p))[k]]
    IN  CASE scan.func = "find_all" -> ChildPaths(soup, p)
          [] scan.func = "find_next_siblings" ->
                 IF p = <<>> THEN <<>> ELSE SubSeq(row, p[Len(p)] + 1, Len(row))
          [] scan.func = "find_previous_siblings" ->
                 IF p = <<>> THEN <<>> ELSE Reverse(SubSeq(row, 1, p[Len(p)] - 1))

\* the candidates of a scan: the traversed nodes that are tags, or strings
\* when the scan includes them, up to the limit
Candidates(scan) ==
    LET all == SelectSeq(Traversed(scan),
                         LAMBDA p : Node(p).kind = "Tag" \/ scan.include_strings)
    IN  IF scan.limit = NoLimit \/ Len(all) <= scan.limit THEN all
        ELSE SubSeq(all, 1, scan.limit)

\* the stop filter of a scan holds of a node
Stops(scan, p) ==
    /\ Node(p).kind = "Tag"
    /\ IF scan.tag_filter.tuple THEN Node(p).name \in scan.tag_filter.names
       ELSE \/ Node(p).name = "table"
            \/ Node(p).class \cap _SEARCH_END_TAG_ATTRS # {}

\* the place among the candidates of the first node the filter stops at; one
\* past the last candidate when there is none
FirstStop(scan) ==
    LET cands == Candidates(scan)
        stops == {k \in 1..Len(cands) : Stops(scan, cands[k])}
    IN  IF stops = {} THEN Len(cands) + 1 ELSE CHOOSE k \in stops : \A j \in stops : k <= j

\* C8: in every scan mode _find_elements_until_tag returns, in traversal order,
\* exactly the candidates before the first element node that satisfies the
\* stop filter; that node and the nodes after it are not in the result.
C8_StopsBeforeBoundary ==
    \A n \in 1..Len(scans) :
        LET scan == scans[n]
            cands == Candidates(scan)
        IN  /\ scan.elements = SubSeq(cands, 1, FirstStop(scan) - 1)
            /\ \A k \in 1..Len(cands) :
                   k >= FirstStop(scan) =>
                       \A e \in 1..Len(scan.elements) : scan.elements[e] # cands[k]

\* a run that scanned previous siblings, next siblings and children, each
\* scan stopped by its filter after it had taken a node
C8_Witness ==
    \A f \in {"find_all", "find_next_siblings", "find_previous_siblings"} :
        \E n \in 1..Len(scans) :
            /\ scans[n].func = f
            /\ FirstStop(scans[n]) <= Len(Candidates(scans[n]))
            /\ scans[n].elements # <<>>

\* a general description over a paragraph followed by a table: the region is
\* the paragraph
C8_ParagraphThenTable ==
    \E n \in 1..Len(scans) :
        /\ scans[n].func = "find_next_siblings"
        /\ ~scans[n].tag_filter.tuple
        /\ Len(scans[n].elements) = 1
        /\ Node(scans[n].elements[1]).name = "p"
        /\ Len(Candidates(scans[n])) >= 2
        /\ FirstStop(scans[n]) = 2
        /\ Node(Candidates(scans[n])[2]).name = "table"

\* ---- C9 ----

\* C9: a scan with limit = N takes at most N candidates from the traversal
\* and returns at most N nodes, also when nothing satisfies the stop filter;
\* a scan without limit runs until the stop filter matches or the traversal
\* is exhausted.
C9_LimitCapsInspection ==
    \A n \in 1..Len(scans) :
        LET scan == scans[n]
            all == SelectSeq(Traversed(scan),
                             LAMBDA p : Node(p).kind = "Tag" \/ scan.include_strings)
        IN  /\ scan.limit # NoLimit =>
                   /\ scan.inspected <= scan.limit
                   /\ Len(scan.elements) <= scan.limit
            /\ scan.limit = NoLimit =>
                   \/ /\ scan.inspected = Len(all)
                      /\ scan.elements = all
                   \/ /\ scan.inspected <= Len(all)
                      /\ Stops(scan, all[scan.inspected])
                      /\ scan.elements = SubSeq(all, 1, scan.inspected - 1)

\* a scan with limit 2 over three siblings none of which stops it: two are
\* inspected and returned; and a scan without limit that met its stop
C9_Witness ==
    /\ \E n \in 1..Len(scans) :
           /\ scans[n].limit = 2
           /\ Len(SelectSeq(Traversed(scans[n]), LAMBDA p : Node(p).kind = "Tag")) >= 3
           /\ \A k \in 1..3 :
                  ~Stops(scans[n],
                         SelectSeq(Traversed(scans[n]), LAMBDA p : Node(p).kind = "Tag")[k])
           /\ scans[n].inspected = 2
           /\ Len(scans[n].elements) = 2
    /\ \E n \in 1..Len(scans) :
           /\ scans[n].limit = NoLimit
           /\ scans[n].inspected = 3
           /\ Len(scans[n].elements) = 2


\* ---- C1 ----

\* C1: whenever the id is present, the string get_symbol_markdown returns has
\* at most 1800 characters, the signature blocks, the newline, the truncated
\* description and the ellipsis counted together.
C1_OutputWithinLimit == pc = "done" /\ Found => Len(ret) <= 1800

\* the truncated description alone within the limit
C1_DescriptionWithinLimit == pc \in {"format", "done"} => Len(markdown_string) <= 1800

\* ---- C2 ----

\* the groups the specification lists as having no signature
NoSignatureGroupsListed ==
    {"attribute", "envvar", "setting", "templatefilter", "templatetag", "term"}

\* s holds three backquotes in a row
HasFence(s) == \E k \in 1..(Len(s) - 2) : SubSeq(s, k, k + 2) = Fence

\* C2: for a group of the no-signature set, whatever the anchor,
\* get_symbol_markdown extracts no signature and its output holds no fenced
\* code block.
C2_NoSignatureGroups ==
    symbol_data.group \in NoSignatureGroupsListed =>
        /\ signature = None
        /\ pc = "done" => ~HasFence(ret)

\* ---- C5 ----

\* C5: the region is chosen by the ordered rule: a group among module, doc and
\* label gives the general description whatever the anchor's tag; otherwise an
\* anchor that is no dt gives the general description; otherwise a
\* no-signature group gives the dd body without signature; otherwise the
\* signatures are extracted and the dd body is used.  A signature list exists
\* only in the last case.
C5_RegionSelection ==
    Selected =>
        LET group == symbol_data.group
            name == Node(symbol_heading).name
            chosen == pc \notin {"dd", "raised"}
        IN  IF group \in GeneralGroups \/ name # "dt"
            THEN region = "general" /\ signature = None
            ELSE IF group \in NoSignatureGroupsListed
            THEN signature = None /\ (chosen => region = "dd")
            ELSE signature # None /\ (chosen => region = "dd")

\* the same rule with the no-signature set as the code spells it
C5_RegionSelectionAsCoded ==
    Selected =>
        LET group == symbol_data.group
            name == Node(symbol_heading).name
            chosen == pc \notin {"dd", "raised"}
        IN  IF group \in GeneralGroups \/ name # "dt"
            THEN region = "general" /\ signature = None
            ELSE IF group \in _NO_SIGNATURE_GROUPS
            THEN signature = None /\ (chosen => region = "dd")
            ELSE signature # None /\ (chosen => region = "dd")

\* ---- C10 ----

\* the anchor is no dt and the group is none of module, doc and label
UnexpectedShape ==
    /\ Selected
    /\ symbol_data.group \notin GeneralGroups
    /\ Node(symbol_heading).name # "dt"

\* C10: on an unexpected shape get_symbol_markdown falls back to the general
\* description, emits a diagnostic for the call and still returns its
\* best-effort output.
C10_UnexpectedShapeDiagnosed ==
    UnexpectedShape =>
        /\ region = "general"
        /\ pc # "raised"
        /\ log # <<>>

\* on an unexpected shape the general description is used and nothing is raised
C10_UnexpectedShapeFallsBack ==
    UnexpectedShape => region = "general" /\ pc # "raised" /\ signature = None

=============================================================================
